---- MODULE Spec2Model ----
(***************************************************************************)
(* Model of scripts/check-docs-links.py: discovery of the markdown files   *)
(* under the working directory, extraction and classification of their     *)
(* link targets, resolution against the file system, and the report.       *)
(*                                                                         *)
(* A string is a sequence of tokens.  A token is either one character      *)
(* ("#", "/", " " for a whitespace character) or an indivisible run of     *)
(* characters ("http://", "data:", "b", ".md", "..").  No concatenation of *)
(* tokens begins with a scheme token other than that token itself, and no  *)
(* token but ".md" ends with the characters ".md", so prefix and suffix    *)
(* tests on tokens agree with the tests on characters.                     *)
(*                                                                         *)
(* A path is a sequence of components, a component is a string.            *)
(***************************************************************************)
EXTENDS Integers, Sequences, FiniteSets, TLC

VARIABLES files, dirs, unreadable, content,
          pc, md_files, i, links, j, missing,
          checked, scanned, output, exit, rerun, first

vars == <<files, dirs, unreadable, content, pc, md_files, i, links, j,
          missing, checked, scanned, output, exit, rerun, first>>

fsvars == <<files, dirs, unreadable, content>>

-----------------------------------------------------------------------------
(* Bounds *)

\* links in one tree (all documents together)
MaxLinks == 2

\* tokens in one link target, for the trees of SpecLinks
MaxLinkLen == 3

-----------------------------------------------------------------------------
(* Strings *)

Tokens == {"http://", "https://", "mailto:", "data:", "#", " ", "/", "..", "b", "docs"}

Min(S) == CHOOSE x \in S : \A y \in S : x <= y

Max(S) == CHOOSE x \in S : \A y \in S : x >= y

Range(s) == {s[k] : k \in 1..Len(s)}

SeqsUpTo(S, n) == UNION {[1..k -> S] : k \in 0..n}

\* str.startswith(p) for a prefix p that is one token
StartsWith(s, p) == Len(s) >= 1 /\ s[1] = p

\* str.startswith(tuple)
StartsWithAny(s, ps) == \E p \in ps : StartsWith(s, p)

\* s.split(sep, 1)[0]
SplitFirst(s, sep) ==
    LET at == {k \in 1..Len(s) : s[k] = sep}
    IN  IF at = {} THEN s ELSE SubSeq(s, 1, Min(at) - 1)

\* str.strip()
Strip(s) ==
    LET ink == {k \in 1..Len(s) : s[k] # " "}
    IN  IF ink = {} THEN <<>> ELSE SubSeq(s, Min(ink), Max(ink))

-----------------------------------------------------------------------------
(* Paths *)

\* tokens whose last characters are path separators
SlashEnded == {"http://", "https://"}

\* the components of a path string: split at the separators, empty
\* components dropped
RECURSIVE PartsFrom(_, _, _, _)
PartsFrom(s, k, cur, acc) ==
    LET flush(c) == IF c = <<>> THEN acc ELSE Append(acc, c)
    IN  IF k > Len(s) THEN flush(cur)
        ELSE IF s[k] = "/" THEN PartsFrom(s, k + 1, <<>>, flush(cur))
        ELSE IF s[k] \in SlashEnded
             THEN PartsFrom(s, k + 1, <<>>, flush(Append(cur, s[k])))
        ELSE PartsFrom(s, k + 1, Append(cur, s[k]), acc)

Parts(s) == PartsFrom(s, 1, <<>>, <<>>)

IsAbsolute(s) == StartsWith(s, "/")

\* Path.parent of a relative path
Parent(p) == IF p = <<>> THEN <<>> ELSE SubSeq(p, 1, Len(p) - 1)

\* Path.name
Name(p) == p[Len(p)]

\* the working directory, root = Path('.')
Cwd == << <<"w">> >>

\* Path.resolve() without symbolic links: ".." removes the component before
\* it, and the parent of the file system root is the root
RECURSIVE Normalize(_, _)
Normalize(p, acc) ==
    IF p = <<>> THEN acc
    ELSE IF Head(p) = <<"..">> THEN Normalize(Tail(p), Parent(acc))
    ELSE Normalize(Tail(p), Append(acc, Head(p)))

\* (a / b): an absolute b replaces a
Join(dir, s) == IF IsAbsolute(s) THEN Parts(s) ELSE Cwd \o dir \o Parts(s)

\* (md.parent / link_path).resolve()
Target(md, link_path) == Normalize(Join(Parent(md), link_path), <<>>)

\* Path.exists()
Exists(p) == p \in files \cup dirs

\* fnmatch(name, '*.md')
MatchesMd(name) == Len(name) >= 1 /\ name[Len(name)] = ".md"

\* the entries below the root, as paths relative to it
Below == {SubSeq(p, Len(Cwd) + 1, Len(p)) :
            p \in {q \in files \cup dirs :
                     Len(q) > Len(Cwd) /\ SubSeq(q, 1, Len(Cwd)) = Cwd}}

\* root.rglob('*.md'): files and directories alike
RGlob == {p \in Below : MatchesMd(Name(p))}

\* the orders in which the entries of a set can be listed
Orders(S) == {s \in [1..Cardinality(S) -> S] : Range(s) = S}

\* md.read_text(encoding='utf-8') succeeds
Readable(md) == (Cwd \o md) \in files /\ md \notin unreadable

\* link_re.findall(text): the targets of the inline links of the document,
\* in the order of the text
FindAll(md) == content[md]

-----------------------------------------------------------------------------
(* Classification of a link target *)

\* the prefixes of line 13 with mailto: forgotten
ExternalsNoMailto == {"http://", "https://"}

\* the prefixes of line 13
Externals == {"http://", "https://", "mailto:"}

\* link.startswith(('http://', 'https://', 'mailto:'))
IsExternal(link) == StartsWithAny(link, Externals)

\* link.startswith('#')
IsFragment(link) == StartsWith(link, "#")

\* link.strip(): the fragment is not split off
LinkPathWhole(link) == Strip(link)

\* link.split('#', 1)[0].strip()
LinkPath(link) == Strip(SplitFirst(link, "#"))

\* link_path.startswith('data:')
IsDataUri(link_path) == StartsWith(link_path, "data:")

\* one of the four continue statements is taken
Skipped(link) ==
    \/ IsExternal(link)
    \/ IsFragment(link)
    \/ LinkPath(link) = <<>>
    \/ IsDataUri(LinkPath(link))

\* if (md, link) not in missing: missing.append((md, link))
AppendedOnce(m, md, link) ==
    IF <<md, link>> \in Range(m) THEN m ELSE Append(m, <<md, link>>)

\* missing.append((md, link))
Appended(m, md, link) == Append(m, <<md, link>>)

-----------------------------------------------------------------------------
(* The report *)

Line(kind, md, link) == [kind |-> kind, md |-> md, link |-> link]

HeaderLine == Line("Missing links:", <<>>, <<>>)

OkLine == Line("All local markdown links resolve.", <<>>, <<>>)

\* print(f'- {md}: {link}')
EntryLine(e) == Line("-", e[1], e[2])

\* the header and the entries from the last to the first
ReportLinesReversed(m) ==
    <<HeaderLine>> \o [k \in 1..Len(m) |-> EntryLine(m[Len(m) + 1 - k])]

\* the header and one line for each entry, in the order of the list
ReportLines(m) == <<HeaderLine>> \o [k \in 1..Len(m) |-> EntryLine(m[k])]

\* what lines 26-32 print
Printed(m) == IF m # <<>> THEN ReportLines(m) ELSE <<OkLine>>

\* the script without its sys.exit(1)
ExitCodeZero(m) == 0

\* sys.exit(1) in the branch of a non-empty list, else the end of the script
ExitCode(m) == IF m # <<>> THEN 1 ELSE 0

-----------------------------------------------------------------------------
(* The trees *)

FileCands == { << <<"w">>, <<"a", ".md">> >>,
               << <<"w">>, <<"docs">>, <<"a", ".md">> >>,
               << <<"w">>, <<"b">> >>,
               << <<"w">>, <<"docs">>, <<"b">> >> }

DirCands == { << <<"w">>, <<"docs">> >>,
              << <<"w">>, <<"d", ".md">> >> }

\* the file system root and the working directory always exist
BaseDirs == { <<>>, Cwd }

\* the texts of the documents of D, given as the links of the tree in the
\* order of their documents' texts
ContentOf(flat, D) ==
    [md \in D |->
        LET sel == SelectSeq(flat, LAMBDA e : e[1] = md)
        IN  [k \in 1..Len(sel) |-> sel[k][2]]]

\* a tree whose documents hold at most n links out of L
InitOver(L, n) ==
    \E F \in SUBSET FileCands, D \in SUBSET DirCands :
        /\ \A p \in F \cup D : Parent(p) \in D \cup BaseDirs
        /\ LET mds == {SubSeq(p, 2, Len(p)) : p \in {q \in F : MatchesMd(Name(q))}}
           IN  \E U \in SUBSET mds :
                 \E flat \in SeqsUpTo((mds \ U) \X L, n) :
                    /\ files = F
                    /\ dirs = D \cup BaseDirs
                    /\ unreadable = U
                    /\ content = ContentOf(flat, mds \ U)
        /\ pc = "start"
        /\ md_files = <<>>
        /\ i = 0
        /\ links = <<>>
        /\ j = 0
        /\ missing = <<>>
        /\ checked = <<>>
        /\ scanned = <<>>
        /\ output = <<>>
        /\ exit = -1
        /\ rerun = FALSE
        /\ first = [missing |-> <<>>, output |-> <<>>, exit |-> -1]

\* targets of every kind the classification tells apart
SampleLinks == { <<"b">>,
                 <<"b", "#", "b">>,
                 <<"..", "/", "b">>,
                 <<"https://", "b">>,
                 <<" ", "https://", "b">>,
                 <<"#", "b">>,
                 <<"data:", "b">> }

\* every target of at most MaxLinkLen tokens; [^)]+ matches no empty target
AllLinks == SeqsUpTo(Tokens, MaxLinkLen) \ {<<>>}

Init == InitOver(SampleLinks, MaxLinks)

InitLinks == InitOver(AllLinks, 1)

-----------------------------------------------------------------------------
(* The run.  exit = -1 while the process has not ended. *)

\* lines 5-9
Discover ==
    /\ pc = "start"
    /\ \E order \in Orders(RGlob) : md_files' = order
    /\ i' = 0
    /\ missing' = <<>>
    /\ pc' = "loop"
    /\ UNCHANGED <<fsvars, links, j, checked, scanned, output, exit, rerun, first>>

\* lines 10-12: the next document is read and its links are extracted
ReadText ==
    /\ pc = "loop"
    /\ i < Len(md_files)
    /\ Readable(md_files[i + 1])
    /\ i' = i + 1
    /\ links' = FindAll(md_files[i + 1])
    /\ j' = 0
    /\ scanned' = Append(scanned, md_files[i + 1])
    /\ pc' = IF links' = <<>> THEN "loop" ELSE "links"
    /\ UNCHANGED <<fsvars, md_files, missing, checked, output, exit, rerun, first>>

\* line 11 inside try/except with continue: the document is passed over
ReadFailSkip ==
    /\ pc = "loop"
    /\ i < Len(md_files)
    /\ ~Readable(md_files[i + 1])
    /\ i' = i + 1
    /\ UNCHANGED <<fsvars, pc, md_files, links, j, missing, checked, scanned, output, exit, rerun, first>>

\* line 11: read_text raises, nothing catches it, the interpreter ends the
\* process with status 1
ReadFail ==
    /\ pc = "loop"
    /\ i < Len(md_files)
    /\ ~Readable(md_files[i + 1])
    /\ i' = i + 1
    /\ pc' = "crashed"
    /\ exit' = 1
    /\ UNCHANGED <<fsvars, md_files, links, j, missing, checked, scanned, output, rerun, first>>

\* lines 13-21: the link is passed over
SkipLink ==
    /\ pc = "links"
    /\ j < Len(links)
    /\ Skipped(links[j + 1])
    /\ j' = j + 1
    /\ pc' = IF j' = Len(links) THEN "loop" ELSE "links"
    /\ UNCHANGED <<fsvars, md_files, i, links, missing, checked, scanned, output, exit, rerun, first>>

\* lines 22-24: the link is resolved and looked up
CheckLink ==
    /\ pc = "links"
    /\ j < Len(links)
    /\ ~Skipped(links[j + 1])
    /\ LET md == md_files[i]
           link == links[j + 1]
       IN  /\ checked' = Append(checked, <<md, link>>)
           /\ missing' = IF ~Exists(Target(md, LinkPath(link)))
                         THEN Appended(missing, md, link)
                         ELSE missing
    /\ j' = j + 1
    /\ pc' = IF j' = Len(links) THEN "loop" ELSE "links"
    /\ UNCHANGED <<fsvars, md_files, i, links, scanned, output, exit, rerun, first>>

\* lines 26-32
Report ==
    /\ pc = "loop"
    /\ i = Len(md_files)
    /\ output' = Printed(missing)
    /\ exit' = ExitCode(missing)
    /\ pc' = "done"
    /\ UNCHANGED <<fsvars, md_files, i, links, j, missing, checked, scanned, rerun, first>>

\* the script is started a second time on the same tree
Rerun ==
    /\ pc \in {"done", "crashed"}
    /\ ~rerun
    /\ rerun' = TRUE
    /\ first' = [missing |-> missing, output |-> output, exit |-> exit]
    /\ pc' = "start"
    /\ md_files' = <<>>
    /\ i' = 0
    /\ links' = <<>>
    /\ j' = 0
    /\ missing' = <<>>
    /\ checked' = <<>>
    /\ scanned' = <<>>
    /\ output' = <<>>
    /\ exit' = -1
    /\ UNCHANGED fsvars

Next == Discover \/ ReadText \/ ReadFail \/ SkipLink \/ CheckLink \/ Report

NextRerun == Next \/ Rerun

Spec == Init /\ [][Next]_vars

SpecLinks == InitLinks /\ [][Next]_vars

SpecRerun == Init /\ [][NextRerun]_vars

-----------------------------------------------------------------------------
(* The vocabulary of the specification *)

RECURSIVE BeforeHash(_)
BeforeHash(s) ==
    IF s = <<>> \/ Head(s) = "#" THEN <<>> ELSE <<Head(s)>> \o BeforeHash(Tail(s))

RECURSIVE TrimLeft(_)
TrimLeft(s) == IF s # <<>> /\ Head(s) = " " THEN TrimLeft(Tail(s)) ELSE s

RECURSIVE TrimRight(_)
TrimRight(s) ==
    IF s # <<>> /\ s[Len(s)] = " " THEN TrimRight(SubSeq(s, 1, Len(s) - 1)) ELSE s

Trim(s) == TrimRight(TrimLeft(s))

\* the path portion of a target: what stands before the first "#", without
\* the surrounding whitespace
PathPortion(link) == Trim(BeforeHash(Trim(link)))

\* the trimmed target begins with an external scheme or with "#"
ExternalTarget(link) ==
    LET t == Trim(link)
    IN  t # <<>> /\ t[1] \in {"http://", "https://", "mailto:", "#"}

\* a local link: not external, not a bare fragment, not a data: URI
LocalLink(link) ==
    /\ ~ExternalTarget(link)
    /\ PathPortion(link) # <<>>
    /\ PathPortion(link)[1] # "data:"

\* the path portion exists relative to the directory of the document
Resolves(md, link) == Exists(Target(md, PathPortion(link)))

Count(s, x) == Cardinality({k \in 1..Len(s) : s[k] = x})

Documents == DOMAIN content

Position(s, x) == Min({k \in 1..Len(s) : s[k] = x})

\* a is b with some elements left out
RECURSIVE IsSubseq(_, _)
IsSubseq(a, b) ==
    IF a = <<>> THEN TRUE
    ELSE IF b = <<>> THEN FALSE
    ELSE IF Head(a) = Head(b) THEN IsSubseq(Tail(a), Tail(b))
    ELSE IsSubseq(a, Tail(b))

\* the entries the report shows, in the order of the lines
OutEntries ==
    LET es == SelectSeq(output, LAMBDA l : l.kind = "-")
    IN  [k \in 1..Len(es) |-> <<es[k].md, es[k].link>>]

Ended == pc \in {"done", "crashed"}

-----------------------------------------------------------------------------
(* The claims *)

\* C1: in a tree whose documents can all be read and where every local link
\* resolves (or there is none), the run ends with an empty list of missing
\* links and with status 0.
C1_ResolvingTreeSucceeds ==
    ( /\ Ended
      /\ unreadable = {}
      /\ \A md \in Documents : \A l \in Range(content[md]) :
            LocalLink(l) => Resolves(md, l) )
    => (pc = "done" /\ missing = <<>> /\ exit = 0)

\* C2: when the scan has completed, every document was scanned, and a local
\* link whose path portion does not exist is in the list of missing links
\* as often as it occurs in its document.
C2_MissingOncePerOccurrence ==
    pc = "done" =>
        /\ Range(scanned) = RGlob
        /\ \A md \in Documents : \A l \in Range(content[md]) :
              (LocalLink(l) /\ ~Resolves(md, l))
                  => Count(missing, <<md, l>>) = Count(content[md], l)

C2_Witness ==
    /\ pc = "done"
    /\ \E md \in Documents : \E l \in Range(content[md]) :
          /\ LocalLink(l) /\ ~Resolves(md, l)
          /\ Count(content[md], l) = 2
          /\ Count(missing, <<md, l>>) = 2

\* C3: a target that begins with http://, https://, mailto:, # or data: is
\* never looked up and never in the list of missing links.
C3_ExternalNeverChecked ==
    LET pre == {"http://", "https://", "mailto:", "#", "data:"}
    IN  /\ \A k \in 1..Len(checked) : checked[k][2][1] \notin pre
        /\ \A k \in 1..Len(missing) : missing[k][2][1] \notin pre

C3_Witness ==
    /\ pc = "done"
    /\ \E md \in Range(scanned) : \E l \in Range(content[md]) : l[1] = "mailto:"
    /\ checked = <<>>

\* C4: a local target with a "#" is reported missing exactly when its path
\* portion, what stands before the first "#", does not exist relative to
\* the directory of its document.
C4_FragmentIgnored ==
    pc = "done" =>
        \A md \in Documents : \A l \in Range(content[md]) :
            ("#" \in Range(l) /\ LocalLink(l))
                => (<<md, l>> \in Range(missing) <=> ~Resolves(md, l))

C4_Witness ==
    /\ pc = "done"
    /\ \E md \in Documents : \E l \in Range(content[md]) :
          /\ "#" \in Range(l) /\ LocalLink(l)
          /\ l[Len(l)] \notin {"#", " "}
          /\ Resolves(md, l)
          /\ <<md, l>> \in Range(checked)
          /\ missing = <<>>

\* C5: when the scan has completed, status 0 and the one line 'All local
\* markdown links resolve.' go with an empty list of missing links, the
\* header 'Missing links:' and status 1 with a non-empty one, and the two
\* lines are never printed together.
C5_ExitMatchesResult ==
    /\ pc = "done" =>
          /\ (missing = <<>>) <=> (exit = 0)
          /\ (missing = <<>>) <=> (output = <<OkLine>>)
          /\ missing # <<>> => (output[1] = HeaderLine /\ exit = 1)
    /\ ~(OkLine \in Range(output) /\ HeaderLine \in Range(output))

C5_Witness == pc = "done" /\ missing # <<>> /\ exit = 1 /\ output[1] = HeaderLine

\* C6: the report is printed only when every document has been scanned; it
\* has one line for each missing link, documents in the order of their
\* discovery and the links of one document in the order of its text.
C6_ReportInOrder ==
    /\ output # <<>> => (pc = "done" /\ i = Len(md_files) /\ scanned = md_files)
    /\ (pc = "done" /\ missing # <<>>) =>
          /\ Len(output) = Len(missing) + 1
          /\ OutEntries = missing
          /\ \A p, q \in 1..Len(OutEntries) :
                p < q => Position(md_files, OutEntries[p][1])
                           <= Position(md_files, OutEntries[q][1])
          /\ \A md \in Documents :
                LET of == SelectSeq(OutEntries, LAMBDA e : e[1] = md)
                IN  IsSubseq([k \in 1..Len(of) |-> of[k][2]], content[md])

C6_Witness ==
    /\ pc = "done"
    /\ Len(OutEntries) = 2
    /\ OutEntries[1][1] # OutEntries[2][1]

C8_UnreadableAborts ==
    /\ \A k \in 1..i : ~Readable(md_files[k]) => (pc = "crashed" /\ k = i)
    /\ pc = "crashed" =>
          /\ ~Readable(md_files[i])
          /\ exit # 0
          /\ output = <<>>
          /\ Range(scanned) = {md_files[k] : k \in 1..(i - 1)}
          /\ ~ENABLED Next

C8_Witness ==
    /\ pc = "crashed"
    /\ md_files[i] \in unreadable
    /\ i = 2
    /\ i < Len(md_files)
    /\ checked # <<>>
    /\ missing = <<>>

\* C9: a target that begins, after its surrounding whitespace is removed,
\* with http://, https://, mailto: or # is never looked up and never
\* reported missing.
C9_TrimmedExternalSkipped ==
    /\ \A k \in 1..Len(checked) : ~ExternalTarget(checked[k][2])
    /\ \A k \in 1..Len(missing) : ~ExternalTarget(missing[k][2])

\* C10: every entry that the scan reads as a document is a file; a
\* directory whose name ends in .md is not among them.
C10_DocumentsAreFiles ==
    \A k \in 1..i : (Cwd \o md_files[k]) \in files

====
